---- MODULE Spec2Model ----
(***************************************************************************)
(* LEO voice assistant (src/LEO_FINAL.py): the wake-word listener loop,    *)
(* handle_query, the ordered rule chain of process_command, the file       *)
(* search disambiguation and the unified text+voice output.                *)
(*                                                                         *)
(* Text is modelled by TLA+ strings (sequences of characters); the Python  *)
(* string methods and regular expressions the code uses are operators      *)
(* computed character by character.                                        *)
(***************************************************************************)
EXTENDS Integers, Sequences, FiniteSets, TLC

(***************************************************************************)
(* Bounds of the model.                                                    *)
(***************************************************************************)
\* number of vocabulary phrases joined into one spoken command
MaxPhrases == 2
\* number of files of the home directory tree that search_files walks
MaxFiles == 5

(***************************************************************************)
(* Python string primitives.                                               *)
(***************************************************************************)
CharAt(s, i) == SubSeq(s, i, i)

UpperChars ==
    {"A", "B", "C", "D", "E", "F", "G", "H", "I", "J", "K", "L", "M",
     "N", "O", "P", "Q", "R", "S", "T", "U", "V", "W", "X", "Y", "Z"}

LowerChars ==
    {"a", "b", "c", "d", "e", "f", "g", "h", "i", "j", "k", "l", "m",
     "n", "o", "p", "q", "r", "s", "t", "u", "v", "w", "x", "y", "z"}

\* the lower-case letter of each upper-case one
LowerOf ==
    ("A" :> "a") @@ ("B" :> "b") @@ ("C" :> "c") @@ ("D" :> "d") @@ ("E" :> "e") @@ ("F" :> "f") @@
    ("G" :> "g") @@ ("H" :> "h") @@ ("I" :> "i") @@ ("J" :> "j") @@ ("K" :> "k") @@ ("L" :> "l") @@
    ("M" :> "m") @@ ("N" :> "n") @@ ("O" :> "o") @@ ("P" :> "p") @@ ("Q" :> "q") @@ ("R" :> "r") @@
    ("S" :> "s") @@ ("T" :> "t") @@ ("U" :> "u") @@ ("V" :> "v") @@ ("W" :> "w") @@ ("X" :> "x") @@
    ("Y" :> "y") @@ ("Z" :> "z")

\* the value of each decimal digit
DigitOf ==
    ("0" :> 0) @@ ("1" :> 1) @@ ("2" :> 2) @@ ("3" :> 3) @@ ("4" :> 4) @@ ("5" :> 5) @@ ("6" :> 6) @@ ("7" :> 7) @@ ("8" :> 8) @@ ("9" :> 9)

IsDigit(c) == c \in DOMAIN DigitOf

\* \s of the re module, over the characters the model uses
IsSpace(c) == c \in {" ", "\t", "\n"}

\* \w of the re module: letters, digits and the underscore
IsWordChar(c) == c \in LowerChars \/ c \in UpperChars \/ IsDigit(c) \/ c = "_"

LowerChar(c) == IF c \in UpperChars THEN LowerOf[c] ELSE c

RECURSIVE Lower(_)
\* str.lower()
Lower(s) == IF s = "" THEN "" ELSE LowerChar(CharAt(s, 1)) \o Lower(SubSeq(s, 2, Len(s)))

RECURSIVE LStrip(_)
LStrip(s) == IF s # "" /\ IsSpace(CharAt(s, 1)) THEN LStrip(SubSeq(s, 2, Len(s))) ELSE s

RECURSIVE RStrip(_)
RStrip(s) == IF s # "" /\ IsSpace(CharAt(s, Len(s))) THEN RStrip(SubSeq(s, 1, Len(s) - 1)) ELSE s

\* str.strip()
Strip(s) == RStrip(LStrip(s))

\* s[i:] starts with k
StartsAt(s, i, k) == i + Len(k) - 1 <= Len(s) /\ SubSeq(s, i, i + Len(k) - 1) = k

\* s.startswith(k)
StartsWith(s, k) == StartsAt(s, 1, k)

\* k in s
Contains(s, k) == \E i \in 1..(Len(s) - Len(k) + 1) : StartsAt(s, i, k)

\* s.find(k) as a 1-based position, 0 when k does not occur
Find(s, k) ==
    IF Contains(s, k)
    THEN CHOOSE i \in 1..(Len(s) - Len(k) + 1) :
            StartsAt(s, i, k) /\ \A j \in 1..(i - 1) : ~StartsAt(s, j, k)
    ELSE 0

RECURSIVE Remove(_, _)
\* s.replace(k, ""): every non-overlapping occurrence, left to right
Remove(s, k) ==
    IF Len(s) < Len(k) \/ k = "" THEN s
    ELSE IF StartsWith(s, k) THEN Remove(SubSeq(s, Len(k) + 1, Len(s)), k)
    ELSE CharAt(s, 1) \o Remove(SubSeq(s, 2, Len(s)), k)

\* s.split(k, 1)[1]: the text after the first occurrence of k (k occurs in s)
AfterFirst(s, k) == SubSeq(s, Find(s, k) + Len(k), Len(s))

RECURSIVE DigitsValue(_, _)
\* int() of a run of decimal digits, acc the value read so far
DigitsValue(s, acc) ==
    IF s = "" THEN acc
    ELSE DigitsValue(SubSeq(s, 2, Len(s)), acc * 10 + DigitOf[CharAt(s, 1)])

RECURSIVE DigitRun(_, _, _)
\* the digits of s from position i on, at most n of them
DigitRun(s, i, n) ==
    IF n = 0 \/ i > Len(s) \/ ~IsDigit(CharAt(s, i)) THEN ""
    ELSE CharAt(s, i) \o DigitRun(s, i + 1, n - 1)

RECURSIVE SkipSpace(_, _)
\* the first position from i on that holds no whitespace
SkipSpace(s, i) == IF i <= Len(s) /\ IsSpace(CharAt(s, i)) THEN SkipSpace(s, i + 1) ELSE i

(***************************************************************************)
(* Spoken and typed number parsing.                                        *)
(***************************************************************************)
WORD_NUMS ==
    << <<"zero", 0>>, <<"oh", 0>>, <<"none", 0>>, <<"no", 0>>,
       <<"one", 1>>, <<"first", 1>>,
       <<"two", 2>>, <<"second", 2>>, <<"to", 2>>, <<"too", 2>>,
       <<"three", 3>>, <<"third", 3>>,
       <<"four", 4>>, <<"for", 4>>, <<"fourth", 4>>,
       <<"five", 5>>, <<"fifth", 5>>,
       <<"six", 6>>, <<"sixth", 6>>,
       <<"seven", 7>>, <<"seventh", 7>>,
       <<"eight", 8>>, <<"ate", 8>>, <<"eighth", 8>>,
       <<"nine", 9>>, <<"ninth", 9>>,
       <<"ten", 10>>, <<"tenth", 10>> >>

InWordNums(t) == \E i \in 1..Len(WORD_NUMS) : WORD_NUMS[i][1] = t

WordNum(t) == WORD_NUMS[CHOOSE i \in 1..Len(WORD_NUMS) : WORD_NUMS[i][1] = t][2]

RECURSIVE WordEnd(_, _)
\* the position after the run of \w characters that starts at i
WordEnd(s, i) == IF i <= Len(s) /\ IsWordChar(CharAt(s, i)) THEN WordEnd(s, i + 1) ELSE i

RECURSIVE FirstWordNum(_, _)
\* the loop over re.split(r'\W+', s): the value of the first token of s, from
\* position i on, that WORD_NUMS holds, -1 when there is none
FirstWordNum(s, i) ==
    IF i > Len(s) THEN -1
    ELSE IF ~IsWordChar(CharAt(s, i)) THEN FirstWordNum(s, i + 1)
    ELSE IF InWordNums(SubSeq(s, i, WordEnd(s, i) - 1))
         THEN WordNum(SubSeq(s, i, WordEnd(s, i) - 1))
         ELSE FirstWordNum(s, WordEnd(s, i))

\* the start of the match of re.search(r'\d+', s), 0 when s holds no digit
FirstDigitPos(s) ==
    IF \E i \in 1..Len(s) : IsDigit(CharAt(s, i))
    THEN CHOOSE i \in 1..Len(s) :
            IsDigit(CharAt(s, i)) /\ \A j \in 1..(i - 1) : ~IsDigit(CharAt(s, j))
    ELSE 0

\* a parser that looks the words up before it looks for digits
parse_spoken_number_words_first(text) ==
    LET s == Lower(Strip(text)) IN
    IF s = "" THEN -1
    ELSE IF FirstWordNum(s, 1) # -1 THEN FirstWordNum(s, 1)
    ELSE IF FirstDigitPos(s) > 0
         THEN DigitsValue(DigitRun(s, FirstDigitPos(s), Len(s)), 0)
         ELSE -1

parse_spoken_number(text) ==
    LET s == Lower(Strip(text)) IN
    IF s = "" THEN -1
    ELSE IF FirstDigitPos(s) > 0
         THEN DigitsValue(DigitRun(s, FirstDigitPos(s), Len(s)), 0)
         ELSE FirstWordNum(s, 1)

\* the characters int() accepts after the sign: digits, single underscores between them
IsIntBody(b) ==
    /\ b # ""
    /\ IsDigit(CharAt(b, 1))
    /\ IsDigit(CharAt(b, Len(b)))
    /\ \A i \in 1..Len(b) : IsDigit(CharAt(b, i)) \/ CharAt(b, i) = "_"
    /\ ~Contains(b, "__")

\* int(text.strip()) of the typed fallback: ok is FALSE where int() raises ValueError
ParseInt(text) ==
    LET s == Strip(text)
        signed == s # "" /\ CharAt(s, 1) \in {"+", "-"}
        body == IF signed THEN SubSeq(s, 2, Len(s)) ELSE s
        mag == DigitsValue(Remove(body, "_"), 0)
    IN  IF IsIntBody(body)
        THEN [ok |-> TRUE, val |-> IF signed /\ CharAt(s, 1) = "-" THEN 0 - mag ELSE mag]
        ELSE [ok |-> FALSE, val |-> -1]

(***************************************************************************)
(* process_command: the predicates of the rule chain, in source order.     *)
(***************************************************************************)
WAKE_WORD == "leo"

\* re.search(r'\b<k>\b', q)
WordBounded(q, k) ==
    \E i \in 1..(Len(q) - Len(k) + 1) :
        /\ StartsAt(q, i, k)
        /\ (i = 1 \/ ~IsWordChar(CharAt(q, i - 1)))
        /\ (i + Len(k) > Len(q) \/ ~IsWordChar(CharAt(q, i + Len(k))))

\* the positions where r'(?:set\s*)?volume\s*(\d{1,3})' finds its digits
VolumeDigitsAt(q) ==
    {SkipSpace(q, i + 6) : i \in {j \in 1..Len(q) :
        StartsAt(q, j, "volume") /\ SkipSpace(q, j + 6) <= Len(q)
                                 /\ IsDigit(CharAt(q, SkipSpace(q, j + 6)))}}

Least(S) == CHOOSE x \in S : \A y \in S : x <= y

\* int(m.group(1)) of the absolute volume rule
VolumePercent(q) == DigitsValue(DigitRun(q, Least(VolumeDigitsAt(q)), 3), 0)

\* the positions where r'weather (?:in|of)\s+(.+)' finds its city
CityAt(q) ==
    {SkipSpace(q, i + 10) : i \in {j \in 1..Len(q) :
        /\ StartsAt(q, j, "weather in") \/ StartsAt(q, j, "weather of")
        /\ j + 10 <= Len(q) /\ IsSpace(CharAt(q, j + 10))
        /\ SkipSpace(q, j + 10) <= Len(q)}}

\* city_match.group(1) if city_match else ""
WeatherCity(q) == IF CityAt(q) = {} THEN "" ELSE SubSeq(q, Least(CityAt(q)), Len(q))

file_keywords ==
    << "find file", "search file", "fetch file", "open file",
       "find", "search", "fetch", "where", "locate", "show file", "get file" >>

RECURSIVE StripKeywords(_, _)
\* for k in file_keywords: words = words.replace(k, "")
StripKeywords(words, i) ==
    IF i > Len(file_keywords) THEN words
    ELSE StripKeywords(Remove(words, file_keywords[i]), i + 1)

\* the search term of the file search rule
SearchTerms(q) == Strip(StripKeywords(q, 1))

\* a test that takes only the empty search term for a missing one
TermMissingOnlyEmpty(terms) == terms = ""

\* not search_terms or len(search_terms) < 2
TermMissing(terms) == terms = "" \/ Len(terms) < 2

\* the mute rule without its exclusion of "unmute"
MuteRuleNoExclusion(q) == Contains(q, "mute")

\* "mute" in q and "unmute" not in q
MuteRule(q) == Contains(q, "mute") /\ ~Contains(q, "unmute")

\* the rule chain with the file search tried ahead of the Wikipedia rule
RulesFileSearchEarly ==
    << "greeting", "smalltalk", "farewell", "file_search", "wikipedia", "open_youtube",
       "open_google", "search", "play", "time", "date", "joke", "weather", "volume_up",
       "volume_down", "mute", "unmute", "volume_set", "brightness_up", "brightness_down",
       "screenshot", "shutdown", "restart", "sleep", "internet", "cpu", "ram" >>

\* the rules of process_command, top to bottom
Rules ==
    << "greeting", "smalltalk", "farewell", "wikipedia", "open_youtube", "open_google",
       "search", "play", "time", "date", "joke", "weather", "volume_up", "volume_down",
       "mute", "unmute", "volume_set", "brightness_up", "brightness_down", "screenshot",
       "shutdown", "restart", "sleep", "internet", "cpu", "ram", "file_search" >>

\* the condition of the if statement of rule r
RuleMatches(r, q) ==
    CASE r = "greeting" ->
            q \in {"hello", "hi", "hey", "good morning", "good afternoon", "good evening"}
      [] r = "smalltalk" -> q \in {"how are you", "how are you doing", "what's up", "whats up"}
      [] r = "farewell" -> q \in {"bye", "exit", "quit", "goodbye", "stop"}
      [] r = "wikipedia" -> Contains(q, "wikipedia")
      [] r = "open_youtube" -> Contains(q, "open youtube")
      [] r = "open_google" -> Contains(q, "open google")
      [] r = "search" -> StartsWith(q, "search ")
      [] r = "play" -> StartsWith(q, "play ")
      [] r = "time" -> Contains(q, "time")
      [] r = "date" -> Contains(q, "date")
      [] r = "joke" -> Contains(q, "joke")
      [] r = "weather" -> Contains(q, "weather")
      [] r = "volume_up" -> WordBounded(q, "volume up")
      [] r = "volume_down" -> WordBounded(q, "volume down")
      [] r = "mute" -> MuteRule(q)
      [] r = "unmute" -> Contains(q, "unmute")
      [] r = "volume_set" -> VolumeDigitsAt(q) # {}
      [] r = "brightness_up" -> Contains(q, "brightness up")
      [] r = "brightness_down" -> Contains(q, "brightness down")
      [] r = "screenshot" -> Contains(q, "screenshot")
      [] r = "shutdown" -> Contains(q, "shutdown")
      [] r = "restart" -> Contains(q, "restart")
      [] r = "sleep" -> Contains(q, "sleep")
      [] r = "internet" -> Contains(q, "internet")
      [] r = "cpu" -> Contains(q, "cpu")
      [] r = "ram" -> Contains(q, "ram")
      [] r = "file_search" -> \E i \in 1..Len(file_keywords) : Contains(q, file_keywords[i])
      [] OTHER -> FALSE

\* process_command without its final return fetch_gemini_response(q)
RECURSIVE RunRulesNoFallback(_, _)
RunRulesNoFallback(q, i) ==
    IF i > Len(Rules) THEN <<>>
    ELSE IF RuleMatches(Rules[i], q) THEN <<Rules[i]>> ELSE RunRulesNoFallback(q, i + 1)

RECURSIVE RunRules(_, _)
\* the rule whose body process_command(q) executes, trying rule i and on: the
\* body of the first rule whose condition holds returns, and the text no rule
\* matches reaches the final return fetch_gemini_response(q), "fallback"
RunRules(q, i) ==
    IF i > Len(Rules) THEN <<"fallback">>
    ELSE IF RuleMatches(Rules[i], q) THEN <<Rules[i]>> ELSE RunRules(q, i + 1)

(***************************************************************************)
(* What a step writes, says, calls: the record of the current iteration.   *)
(***************************************************************************)
Ev(ev, name, arg) == [ev |-> ev, name |-> name, arg |-> arg]

\* a call that returned a Response, a call that raised
Return(resp, evs) == [ret |-> TRUE, resp |-> resp, exc |-> "", evs |-> evs]
Raised(exc, evs) == [ret |-> FALSE, resp |-> "", exc |-> exc, evs |-> evs]

\* oneline of _ascii_table: the Answer row of the printed table
RECURSIVE ReplaceChar(_, _, _)
\* s.replace(a, b) for a single character a
ReplaceChar(s, a, b) ==
    IF s = "" THEN ""
    ELSE (IF CharAt(s, 1) = a THEN b ELSE CharAt(s, 1)) \o ReplaceChar(SubSeq(s, 2, Len(s)), a, b)

OneLine(answer) ==
    LET o == ReplaceChar(Strip(answer), "\n", " ")
    IN  IF Len(o) > 220 THEN SubSeq(o, 1, 217) \o "..." ELSE o

\* speak_and_print(text): nothing for an empty text; else the table is printed
\* (the toast never raises and changes nothing here), then the voice: Deepgram
\* when it is configured and answers, else pyttsx3, whose failure is raised
speak_and_print(text, tag) ==
    LET shown == Ev("display", tag, OneLine(text)) IN
    IF text = "" THEN {Return("", <<>>)}
    ELSE { Return("", <<shown, Ev("speak", tag, "deepgram")>>),
           Return("", <<shown, Ev("speak", tag, "pyttsx3")>>),
           Raised("RuntimeError", <<shown, Ev("speak_fail", tag, "pyttsx3")>>) }

(***************************************************************************)
(* The effectors behind the rules. An external call either answers or      *)
(* raises; a raise inside a try block is the except branch's return.       *)
(***************************************************************************)
Call(name, arg) == Ev("call", name, arg)
Failed(name, arg) == Ev("failed", name, arg)

\* control_volume(action)
control_volume(action) ==
    { Return("Volume control not supported.", <<>>),
      Return("Volume " \o action \o ".", <<Call("control_volume", action)>>),
      Return("Volume error: <e>", <<Failed("control_volume", action)>>) }

Clamp(lo, x, hi) == IF x < lo THEN lo ELSE IF x > hi THEN hi ELSE x

\* set_volume_absolute(percent)
set_volume_absolute(percent) ==
    LET p == ToString(Clamp(0, percent, 100)) IN
    { Return("Volume control not supported.", <<>>),
      Return("Volume set to " \o p \o "%.", <<Call("set_volume_absolute", p)>>),
      Return("Volume error: <e>", <<Failed("set_volume_absolute", p)>>) }

\* fetch_weather_from_google(city)
fetch_weather_from_google(city) ==
    IF Strip(city) = "" THEN {Return("Please specify a city.", <<>>)}
    ELSE { Return("Weather in " \o city \o " at <time>: <status>.", <<Call("requests.get", city)>>),
           Return("Couldn't fetch weather details right now.", <<Call("requests.get", city)>>),
           Return("Weather fetch error: <e>", <<Failed("requests.get", city)>>) }

\* fetch_gemini_response(prompt); the reply text may be empty or blank
fetch_gemini_response(prompt) ==
    { Return("Gemini not configured. Please ensure your API key is set in GEMINI_API_KEY.", <<>>),
      Return("Gemini AI error or no response: <e>", <<Failed("gemini", prompt)>>) }
    \cup { Return(Strip(IF text = "" THEN "(no response)" ELSE text), <<Call("gemini", prompt)>>) :
             text \in {"<answer>", "", " "} }

\* the brightness rules: sbc missing or failing gives the failure string
Brightness(done) ==
    { Return(done, <<Call("sbc.set_brightness", done)>>),
      Return("Brightness control failed.", <<Failed("sbc", done)>>) }

\* a power rule that runs its action on the caller: a failing action raises
\* into process_command
PowerBlocking(target, resp) ==
    { Return(resp, <<Call(target, "")>>),
      Raised("Error", <<Failed(target, "")>>) }

\* one of the three power rules: the action runs on a thread of its own
Power(target, resp) == {Return(resp, <<Ev("thread", target, "")>>)}

\* webbrowser.open(url) outside any try block
BrowserOpen(url, resp) ==
    { Return(resp, <<Call("webbrowser.open", url)>>),
      Raised("Error", <<Failed("webbrowser.open", url)>>) }

\* a rule body that calls its effector outside any try block
UnguardedCall(name, arg, resp, failure) ==
    { Return(resp, <<Call(name, arg)>>),
      Raised("Error", <<Failed(name, arg)>>) }

\* a rule body of the form try: import, call, return resp / except
\* Exception: return failure; a missing module fails at the import
GuardedCall(name, arg, resp, failure) ==
    { Return(resp, <<Call(name, arg)>>),
      Return(failure, <<Failed(name, arg)>>) }

\* the body of rule r (any rule but the file search) on the text q
RuleOutcomes(r, q) ==
    CASE r = "greeting" -> {Return("Hello! How can I assist you?", <<>>)}
      [] r = "smalltalk" -> {Return("I'm doing well, thank you! How can I help?", <<>>)}
      [] r = "farewell" -> {Return("Goodbye!", <<>>)}
      [] r = "wikipedia" ->
            LET topic == Strip(Remove(Remove(q, "search wikipedia for"), "wikipedia")) IN
            GuardedCall("wikipedia.summary", topic, "<summary of " \o topic \o ">",
                        "Couldn't find that on Wikipedia.")
      [] r = "open_youtube" -> BrowserOpen("https://youtube.com", "Opening YouTube.")
      [] r = "open_google" -> BrowserOpen("https://google.com", "Opening Google.")
      [] r = "search" ->
            LET term == Strip(Remove(q, "search")) IN
            BrowserOpen("https://www.google.com/search?q=" \o term,
                        "Searching Google for " \o term \o ".")
      [] r = "play" ->
            LET song == Strip(Remove(q, "play")) IN
            GuardedCall("pywhatkit.playonyt", song, "Playing " \o song \o ".",
                        "Couldn't play that right now.")
      [] r = "time" -> {Return("The time is <HH:MM:SS>.", <<>>)}
      [] r = "date" -> {Return("Today's date is <date>.", <<>>)}
      [] r = "joke" ->
            GuardedCall("pyjokes.get_joke", "", "<joke>", "I couldn't fetch a joke right now.")
      [] r = "weather" -> fetch_weather_from_google(WeatherCity(q))
      [] r = "volume_up" -> control_volume("up")
      [] r = "volume_down" -> control_volume("down")
      [] r = "mute" -> control_volume("mute")
      [] r = "unmute" -> control_volume("unmute")
      [] r = "volume_set" -> set_volume_absolute(VolumePercent(q))
      [] r = "brightness_up" -> Brightness("Brightness increased.")
      [] r = "brightness_down" -> Brightness("Brightness decreased.")
      [] r = "screenshot" ->
            { Return("Screenshot saved to <cwd>/screenshot.png", <<Call("ImageGrab.grab", "")>>),
              Return("Screenshot failed.", <<Failed("ImageGrab.grab", "")>>) }
      [] r = "shutdown" -> Power("system_shutdown", "Shutting down.")
      [] r = "restart" -> Power("system_restart", "Restarting.")
      [] r = "sleep" -> Power("system_sleep", "Sleeping now.")
      [] r = "internet" -> {Return("Connected.", <<>>), Return("Not connected.", <<>>)}
      [] r = "cpu" ->
            { Return("CPU usage: <n>%", <<Call("psutil.cpu_percent", "")>>),
              Raised("Error", <<Failed("psutil.cpu_percent", "")>>) }
      [] r = "ram" ->
            { Return("RAM usage: <n>%", <<Call("psutil.virtual_memory", "")>>),
              Raised("Error", <<Failed("psutil.virtual_memory", "")>>) }
      [] r = "fallback" -> fetch_gemini_response(q)
      [] OTHER -> {Return("", <<>>)}

(***************************************************************************)
(* File search.                                                            *)
(***************************************************************************)
\* max_results of search_files
MaxResults == 20

\* the files os.walk(~) yields, in its order
HomeTree ==
    << [root |-> "/home/u", fname |-> "notes.txt"],
       [root |-> "/home/u/docs", fname |-> "My Notes.txt"],
       [root |-> "/home/u/docs", fname |-> "report.pdf"],
       [root |-> "/home/u/notes", fname |-> "todo.md"],
       [root |-> "/home/u/old", fname |-> "notes old.txt"],
       [root |-> "/home/u/old", fname |-> "report notes.md"],
       [root |-> "/home/u/old", fname |-> "x-ray.png"] >>

Min(a, b) == IF a < b THEN a ELSE b

\* os.path.join(root, fname)
PathOf(f) == f.root \o "/" \o f.fname

RECURSIVE Walk(_, _, _)
\* the loop of search_files from file i on, found the matches so far
Walk(key, i, found) ==
    IF i > Min(MaxFiles, Len(HomeTree)) THEN found
    ELSE LET hit == Contains(Lower(HomeTree[i].fname), key)
             now == IF hit THEN Append(found, PathOf(HomeTree[i])) ELSE found
         IN  IF Len(now) >= MaxResults THEN now ELSE Walk(key, i + 1, now)

search_files(keyword) == Walk(Lower(keyword), 1, <<>>)

\* open_file(file_path): its message, and what happened
open_file(file_path) ==
    { Return("Opening: " \o file_path, <<Ev("open", "ok", file_path)>>),
      Return("Failed to open " \o file_path \o ": <e>", <<Ev("open", "failed", file_path)>>) }

RECURSIVE Listing(_, _)
\* the numbered lines printed for the matches from index idx on
Listing(found, idx) ==
    IF idx > Len(found) THEN ""
    ELSE "\n" \o ToString(idx) \o ". " \o found[idx] \o Listing(found, idx + 1)

\* the candidate after the chosen one
ChosenFileOffByOne(found, sel) == found[IF sel < Len(found) THEN sel + 1 ELSE 1]

\* matches[sel - 1]: Python counts from 0, the sequence found from 1
ChosenFile(found, sel) == found[(sel - 1) + 1]

\* sel == 0 taken for a choice of the first candidate
SelectionOutcomesNoCancel(sel, found) ==
    IF 0 <= sel /\ sel <= Len(found)
    THEN {Return("Opened: " \o ChosenFile(found, Clamp(1, sel, Len(found))), o.evs) :
            o \in open_file(ChosenFile(found, Clamp(1, sel, Len(found))))}
    ELSE {Return("Invalid choice. No file opened.", <<>>)}

\* what process_command returns for the selection sel among found
SelectionOutcomes(sel, found) ==
    IF sel = 0 THEN {Return("Cancelled. No file opened.", <<>>)}
    ELSE IF 1 <= sel /\ sel <= Len(found)
         THEN {Return("Opened: " \o ChosenFile(found, sel), o.evs) :
                 o \in open_file(ChosenFile(found, sel))}
         ELSE {Return("Invalid choice. No file opened.", <<>>)}

(***************************************************************************)
(* What the environment may say and type.                                  *)
(***************************************************************************)
\* one spoken command for every rule of process_command
Vocabulary ==
    { "hello", "how are you", "bye", "wikipedia", "open youtube", "open google",
      "search notes", "play notes", "play music", "time", "date", "joke", "weather in notes",
      "volume up", "volume down", "volume upper", "mute", "unmute", "volume 45",
      "brightness up", "brightness down", "screenshot", "shutdown", "restart",
      "sleep", "internet", "cpu", "ram", "find file", "tell me a story" }

\* the phrases longer commands are joined from: a trigger of every kind of
\* rule a longer text can match, and words that are no trigger
Phrases ==
    { "wikipedia", "search wikipedia for", "open youtube", "search", "play", "time",
      "joke", "weather in", "volume up", "mute", "unmute", "volume 45",
      "brightness up", "screenshot", "shutdown", "internet", "cpu", "find",
      "notes", "report", "x" }

RECURSIVE Joined(_)
\* the texts of n phrases
Joined(n) == IF n <= 1 THEN Phrases ELSE {a \o " " \o b : a \in Joined(n - 1), b \in Phrases}

\* the commands of at most n phrases
Commands(n) == Vocabulary \cup UNION {Joined(k) : k \in 1..n}

\* what the transcriber may return for the capture of the listener; "" is
\* also what transcribe_google returns when recognition fails
Heard ==
    {"", "hello", "what time is it", "Leo", " leo ", "Hey Leo Volume Up", "cleopatra notes",
     "Hey Leo tell Leo a joke"}
        \cup {"leo " \o c : c \in Commands(MaxPhrases)}

\* the text after the last occurrence of the wake word, said.rsplit(WAKE_WORD, 1)[1]
QueryOfLastOccurrence(text) ==
    LET last == CHOOSE i \in 1..Len(text) :
                    /\ StartsAt(text, i, WAKE_WORD)
                    /\ \A j \in (i + 1)..Len(text) : ~StartsAt(text, j, WAKE_WORD)
    IN  Strip(SubSeq(text, last + Len(WAKE_WORD), Len(text)))

\* said.split(WAKE_WORD, 1)[1].strip() of a capture that holds the wake word
QueryOf(text) == Strip(AfterFirst(text, WAKE_WORD))

\* what the transcriber may return for the follow-up capture
FollowUps == {"", "  "} \cup Commands(1)

\* what the transcriber may return for the capture of the disambiguation
VoiceChoices ==
    {"", "zero", "no", "Two", "second or third", "two 3", "number 1", "seven", "banana", "40"}

\* what the user may type at the "Your choice: " prompt
TypedChoices == {"0", "1", "2", " 3 ", "4", "5", "two", "", "-1", "+2"}

(***************************************************************************)
(* The state of the process.                                               *)
(***************************************************************************)
VARIABLES
    pc,         \* where listen_for_wake_word stands
    micHeld,    \* the listener is inside its "with microphone as source" block
    said,       \* the normalised transcription of the iteration's capture
    query,      \* the query of the iteration, "" while there is none
    executed,   \* the rules whose bodies process_command executed
    matches,    \* the candidates search_files returned
    sel,        \* the value get_user_selection_via_voice_or_input returned
    selBy,      \* the channel that gave sel: "none", "voice" or "typed"
    max_index,  \* the argument of get_user_selection_via_voice_or_input
    response,   \* the value process_command returned
    events      \* what the iteration printed, displayed, spoke, called, in order

vars == <<pc, micHeld, said, query, executed, matches, sel, selBy, max_index, response, events>>

turnVars == <<said, query, executed, matches, sel, selBy, max_index, response>>

Init ==
    /\ pc = "Listening"
    /\ micHeld = FALSE
    /\ said = ""
    /\ query = ""
    /\ executed = <<>>
    /\ matches = <<>>
    /\ sel = -1
    /\ selBy = "none"
    /\ max_index = 0
    /\ response = ""
    /\ events = <<>>

(***************************************************************************)
(* Exceptions that reach the try statement of the listener loop.           *)
(***************************************************************************)
\* a loop whose only except clause is "except sr.UnknownValueError"
CatchesOnlyUnknownValue(exc) == exc = "UnknownValueError"

\* except sr.UnknownValueError / except Exception: every exception of the
\* model but KeyboardInterrupt is an Exception
ListenerCatches(exc) == exc = "UnknownValueError" \/ exc # "KeyboardInterrupt"

\* a __main__ without its except KeyboardInterrupt clause: the interrupt
\* leaves the process with a traceback like any uncaught exception
PropagateNoFarewell(exc, evs) ==
    IF ListenerCatches(exc)
    THEN /\ pc' = "IterEnd"
         /\ micHeld' = TRUE
         /\ events' = events \o evs \o
                (IF exc = "UnknownValueError" THEN <<>>
                 ELSE <<Ev("print", "error", "Error listening: " \o exc)>>)
    ELSE /\ pc' = "Crashed"
         /\ micHeld' = FALSE
         /\ events' = <<Ev("print", "traceback", exc)>>

\* exc, raised after the steps evs, reaches the try statement of the loop: a
\* caught one is logged and the iteration ends; KeyboardInterrupt leaves the
\* loop for the handler of __main__, which prints the farewell; any other
\* leaves the process with a traceback
Propagate(exc, evs) ==
    IF ListenerCatches(exc)
    THEN /\ pc' = "IterEnd"
         /\ micHeld' = TRUE
         /\ events' = events \o evs \o
                (IF exc = "UnknownValueError" THEN <<>>
                 ELSE <<Ev("print", "error", "Error listening: " \o exc)>>)
    ELSE /\ pc' = IF exc = "KeyboardInterrupt" THEN "Exited" ELSE "Crashed"
         /\ micHeld' = FALSE
         /\ events' = IF exc = "KeyboardInterrupt"
                      THEN <<Ev("print", "farewell", "Exiting LEO. Bye!")>>
                      ELSE events \o evs \o <<Ev("print", "traceback", exc)>>

(***************************************************************************)
(* The listener loop.                                                      *)
(***************************************************************************)
\* a loop without the test "if WAKE_WORD in said": any text that was heard
\* is taken for a query
ListenNoWakeWordTest ==
    /\ pc = "Listening"
    /\ \/ /\ Propagate("OSError", <<>>)
          /\ UNCHANGED turnVars
       \/ \E heard \in Heard :
            LET text == Strip(Lower(heard))
                q == IF Contains(text, WAKE_WORD) THEN QueryOf(text) ELSE text
            IN  /\ said' = text
                /\ query' = q
                /\ UNCHANGED <<executed, matches, sel, selBy, max_index, response>>
                /\ IF text = ""
                   THEN pc' = "IterEnd" /\ events' = events /\ micHeld' = TRUE
                   ELSE IF q # ""
                   THEN pc' = "Dispatching" /\ events' = events /\ micHeld' = TRUE
                   ELSE \E o \in speak_and_print("Yes?", "ack") :
                            IF o.ret
                            THEN pc' = "AwaitingQuery" /\ events' = events \o o.evs
                                                       /\ micHeld' = TRUE
                            ELSE Propagate(o.exc, o.evs)

\* one capture of the while loop: recognizer.listen, the transcription, the
\* wake word test, the split and, for an empty query, the "Yes?" prompt
Listen ==
    /\ pc = "Listening"
    /\ \/ /\ Propagate("OSError", <<>>)
          /\ UNCHANGED turnVars
       \/ \E heard \in Heard :
            LET text == Strip(Lower(heard))
                q == IF Contains(text, WAKE_WORD) THEN QueryOf(text) ELSE ""
            IN  /\ said' = text
                /\ query' = q
                /\ UNCHANGED <<executed, matches, sel, selBy, max_index, response>>
                /\ IF text = "" \/ ~Contains(text, WAKE_WORD)
                   THEN pc' = "IterEnd" /\ events' = events /\ micHeld' = TRUE
                   ELSE IF q # ""
                   THEN pc' = "Dispatching" /\ events' = events /\ micHeld' = TRUE
                   ELSE \E o \in speak_and_print("Yes?", "ack") :
                            IF o.ret
                            THEN pc' = "AwaitingQuery" /\ events' = events \o o.evs
                                                       /\ micHeld' = TRUE
                            ELSE Propagate(o.exc, o.evs)

\* the follow-up capture after "Yes?": recognizer.listen(source, timeout=6, ...)
FollowUp ==
    /\ pc = "AwaitingQuery"
    /\ \/ /\ Propagate("WaitTimeoutError", <<>>)
          /\ UNCHANGED turnVars
       \/ \E heard \in FollowUps :
            /\ query' = Strip(Lower(heard))
            /\ pc' = IF query' # "" THEN "Dispatching" ELSE "IterEnd"
            /\ UNCHANGED <<micHeld, said, executed, matches, sel, selBy, max_index, response, events>>

(***************************************************************************)
(* handle_query and process_command.                                       *)
(***************************************************************************)
\* a call that passes one less than the number of candidates
MaxIndexShort(found) == Len(found) - 1

\* the argument len(matches) of get_user_selection_via_voice_or_input
MaxIndexArg(found) == Len(found)

\* process_command returned resp: handle_query goes on to print and speak it
Returned(resp, evs) ==
    /\ pc' = "Responding"
    /\ response' = resp
    /\ events' = events \o evs
    /\ micHeld' = micHeld

\* handle_query(query) up to the return of process_command, or up to the
\* voice capture of the disambiguation when the search finds several files
HandleQuery ==
    /\ pc = "Dispatching"
    /\ LET q == Strip(Lower(query))
           ran == RunRules(q, 1)
           called == <<Call("handle_query", query)>>
           terms == SearchTerms(q)
           found == search_files(terms)
       IN  /\ executed' = ran
           /\ UNCHANGED <<said, query, sel, selBy>>
           /\ IF ran = <<>>
              THEN Returned("", called) /\ UNCHANGED <<matches, max_index>>
              ELSE IF ran[1] # "file_search"
              THEN /\ UNCHANGED <<matches, max_index>>
                   /\ \E o \in RuleOutcomes(ran[1], q) :
                        IF o.ret THEN Returned(o.resp, called \o o.evs)
                        ELSE /\ Propagate(o.exc, called \o o.evs)
                             /\ response' = response
              ELSE IF TermMissing(terms)
              THEN /\ Returned("Please specify a file name, keyword, or part of it to search.", called)
                   /\ UNCHANGED <<matches, max_index>>
              ELSE /\ matches' = found
                   /\ IF found = <<>>
                      THEN /\ Returned("No files found matching '" \o terms \o "'.",
                                       called \o <<Call("search_files", terms)>>)
                           /\ max_index' = max_index
                      ELSE IF Len(found) = 1
                      THEN /\ max_index' = max_index
                           /\ \E o \in open_file(found[1]) :
                                Returned("Found and " \o o.resp,
                                         called \o <<Call("search_files", terms)>> \o o.evs)
                      ELSE /\ max_index' = MaxIndexArg(found)
                           /\ response' = response
                           /\ \E o \in speak_and_print(
                                  "I found multiple files. Please tell me the number of the file you'd like to open.",
                                  "prompt") :
                                LET evs == called \o
                                           << Call("search_files", terms),
                                              Ev("print", "files", "Files found:" \o Listing(found, 1)),
                                              Call("get_user_selection_via_voice_or_input",
                                                   ToString(MaxIndexArg(found))) >> \o o.evs
                                IN  IF o.ret
                                    THEN /\ pc' = "SelVoice"
                                         /\ events' = events \o evs
                                         /\ micHeld' = micHeld
                                    ELSE Propagate(o.exc, evs)

\* get_user_selection_via_voice_or_input returned value by channel: the rest of
\* process_command composes the Response
Selected(value, by, evs) ==
    /\ sel' = value
    /\ selBy' = by
    /\ \E o \in SelectionOutcomes(value, matches) : Returned(o.resp, evs \o o.evs)
    /\ UNCHANGED <<said, query, executed, matches, max_index>>

\* a voice attempt whose failure ends the selection with -1, no typed
\* fallback tried
SelectVoiceNoFallback ==
    /\ pc = "SelVoice"
    /\ \/ Selected(-1, "voice", <<Ev("voice", "failed", "")>>)
       \/ \E heard \in VoiceChoices :
            LET n == parse_spoken_number(heard) IN
            Selected(IF 0 <= n /\ n <= max_index THEN n ELSE -1,
                     "voice", <<Ev("voice", "heard", heard)>>)

\* the voice attempt of the disambiguation: the capture may fail or time out
\* (any exception of the try block is passed over), else the text is parsed
\* and returned when it lies in [0, max_index]
SelectVoice ==
    /\ pc = "SelVoice"
    /\ \/ /\ pc' = "SelTyped"
          /\ events' = events \o <<Ev("voice", "failed", "")>>
          /\ UNCHANGED <<micHeld, response>>
          /\ UNCHANGED turnVars
       \/ \E heard \in VoiceChoices :
            LET n == parse_spoken_number(heard) IN
            IF 0 <= n /\ n <= max_index
            THEN Selected(n, "voice", <<Ev("voice", "heard", heard)>>)
            ELSE /\ pc' = "SelTyped"
                 /\ events' = events \o <<Ev("voice", "heard", heard)>>
                 /\ UNCHANGED <<micHeld, response>>
                 /\ UNCHANGED turnVars

\* the typed fallback without the upper end of its range check
SelectTypedNoUpperCheck ==
    /\ pc = "SelTyped"
    /\ LET asked == <<Ev("print", "typed_prompt", "Enter the number of the file to open (0 to cancel):")>>
       IN  \/ Selected(-1, "typed", asked \o <<Ev("input", "eof", "")>>)
           \/ \E line \in TypedChoices :
                LET n == ParseInt(line) IN
                Selected(IF n.ok /\ 0 <= n.val THEN n.val ELSE -1,
                         "typed", asked \o <<Ev("input", "line", line)>>)

\* the typed fallback: the prompt is printed, one line is read and int() of it
\* returned when it lies in [0, max_index]; anything else, a failing read
\* included, gives -1
SelectTyped ==
    /\ pc = "SelTyped"
    /\ LET asked == <<Ev("print", "typed_prompt", "Enter the number of the file to open (0 to cancel):")>>
       IN  \/ Selected(-1, "typed", asked \o <<Ev("input", "eof", "")>>)
           \/ \E line \in TypedChoices :
                LET n == ParseInt(line) IN
                Selected(IF n.ok /\ 0 <= n.val /\ n.val <= max_index THEN n.val ELSE -1,
                         "typed", asked \o <<Ev("input", "line", line)>>)

\* the rest of handle_query: the two prints and speak_and_print(response)
Respond ==
    /\ pc = "Responding"
    /\ UNCHANGED turnVars
    /\ \E o \in speak_and_print(response, "response") :
        LET evs == <<Ev("print", "user", "User: " \o query),
                     Ev("print", "leo", "Leo: " \o response)>> \o o.evs
        IN  IF o.ret
            THEN pc' = "IterEnd" /\ events' = events \o evs /\ micHeld' = micHeld
            ELSE Propagate(o.exc, evs)

\* the end of an iteration: the with block releases the microphone and the
\* while loop starts over; the iteration's locals are gone
LoopBack ==
    /\ pc = "IterEnd"
    /\ pc' = "Listening"
    /\ micHeld' = FALSE
    /\ said' = ""
    /\ query' = ""
    /\ executed' = <<>>
    /\ matches' = <<>>
    /\ sel' = -1
    /\ selBy' = "none"
    /\ max_index' = 0
    /\ response' = ""
    /\ events' = <<>>

\* how the target of a power thread may end: system_sleep passes over every
\* exception; subprocess.run of system_shutdown and system_restart may raise,
\* which ends the thread with a traceback of its own; off Windows all three
\* return at once
ThreadOutcomes(target) == IF target = "system_sleep" THEN {"done"} ELSE {"done", "failed"}

\* the threads started in this iteration that have not ended
RunningThreads ==
    {i \in DOMAIN events :
        /\ events[i].ev = "thread"
        /\ ~\E j \in DOMAIN events : events[j].ev = "thread_end" /\ events[j].name = events[i].name}

\* a step of a background thread, at any point of the loop: its target ends;
\* nothing of the loop changes
ThreadRun ==
    /\ \E i \in RunningThreads : \E outcome \in ThreadOutcomes(events[i].name) :
            events' = Append(events, Ev("thread_end", events[i].name, outcome))
    /\ UNCHANGED <<pc, micHeld>>
    /\ UNCHANGED turnVars

\* Ctrl-C at any point of the loop: KeyboardInterrupt is no Exception
Interrupt ==
    /\ pc \notin {"Exited", "Crashed"}
    /\ Propagate("KeyboardInterrupt", <<>>)
    /\ said' = ""
    /\ query' = ""
    /\ executed' = <<>>
    /\ matches' = <<>>
    /\ sel' = -1
    /\ selBy' = "none"
    /\ max_index' = 0
    /\ response' = ""

Next ==
    \/ Listen
    \/ FollowUp
    \/ HandleQuery
    \/ SelectVoice
    \/ SelectTyped
    \/ Respond
    \/ LoopBack
    \/ ThreadRun
    \/ Interrupt

Spec == Init /\ [][Next]_vars

(***************************************************************************)
(* process_command alone: the loop has captured a command and is about to  *)
(* hand it to handle_query; the one step is the routing and the effector.  *)
(***************************************************************************)
RouteInit ==
    \E heard \in Heard :
        LET text == Strip(Lower(heard)) IN
        /\ Contains(text, WAKE_WORD)
        /\ QueryOf(text) # ""
        /\ pc = "Dispatching"
        /\ micHeld = TRUE
        /\ said = text
        /\ query = QueryOf(text)
        /\ executed = <<>>
        /\ matches = <<>>
        /\ sel = -1
        /\ selBy = "none"
        /\ max_index = 0
        /\ response = ""
        /\ events = <<>>

RouteNext == HandleQuery

RouteSpec == RouteInit /\ [][RouteNext]_vars

(***************************************************************************)
(* parse_spoken_number alone: a transcription of the selection's voice      *)
(* capture is about to be parsed; the one step is sel = parse(said).        *)
(***************************************************************************)
\* number of tokens joined into one spoken text
MaxTokens == 2

\* what a reply is made of: digits, number words, other words
SpokenTokens ==
    {"", " ", "3", "40", "007", "two", "Second", "third", "or", "banana", "two_x"}

\* what stands between two tokens
Separators == {" ", "-"}

RECURSIVE SpokenTexts(_)
\* the texts of at most n tokens
SpokenTexts(n) ==
    IF n <= 1 THEN SpokenTokens
    ELSE SpokenTexts(n - 1) \cup
         {a \o sep \o b : a \in SpokenTexts(n - 1), sep \in Separators, b \in SpokenTokens}

ParseInit ==
    \E text \in SpokenTexts(MaxTokens) :
        /\ pc = "Parsing"
        /\ micHeld = TRUE
        /\ said = text
        /\ query = ""
        /\ executed = <<>>
        /\ matches = <<>>
        /\ sel = -1
        /\ selBy = "none"
        /\ max_index = 0
        /\ response = ""
        /\ events = <<>>

\* sel = parse_spoken_number(said)
ParseNumber ==
    /\ pc = "Parsing"
    /\ pc' = "Parsed"
    /\ sel' = parse_spoken_number(said)
    /\ UNCHANGED <<micHeld, said, query, executed, matches, selBy, max_index, response, events>>

ParseNext == ParseNumber

ParseSpec == ParseInit /\ [][ParseNext]_vars

(***************************************************************************)
(* Properties.                                                             *)
(***************************************************************************)
\* the events of the iteration with the given kind and name
EventsOf(ev, name) == {i \in DOMAIN events : events[i].ev = ev /\ events[i].name = name}

Has(ev, name) == EventsOf(ev, name) # {}

\* the events of the iteration of the given kind
Kind(ev) == {i \in DOMAIN events : events[i].ev = ev}

\* the step is the end of a background thread
ThreadEnded == Cardinality(Kind("thread_end"))' > Cardinality(Kind("thread_end"))

\* handle_query was called in this iteration
Dispatched == Has("call", "handle_query")

\* the text process_command works on
Normalised == Strip(Lower(query))

\* the rules whose condition the text q satisfies; the final return takes any text
Matching(q) == {Rules[i] : i \in {j \in DOMAIN Rules : RuleMatches(Rules[j], q)}} \cup {"fallback"}

\* the place of rule r in the chain, the final return after every rule
RuleIndex(r) ==
    IF \E i \in DOMAIN Rules : Rules[i] = r
    THEN CHOOSE i \in DOMAIN Rules : Rules[i] = r
    ELSE Len(Rules) + 1

\* C1: every query handed to handle_query has, when its turn is over, exactly
\* one Response shown by the display path and exactly one handed to the
\* speaker path, whatever process_command did and even when the speaker fails
C1_OneResponsePerTurn ==
    (pc = "IterEnd" /\ Dispatched) =>
        /\ Cardinality(EventsOf("display", "response")) = 1
        /\ Cardinality(EventsOf("speak", "response") \cup EventsOf("speak_fail", "response")) = 1

\* C2: an exception raised in a turn (by the command, the follow-up capture or
\* the speech output) never ends the loop: the step that raises it ends the
\* iteration with the error logged, and the iteration's end leads back to
\* Listening in the state the loop started in, unless Ctrl-C arrives (a step
\* of a background thread is no step of the loop)
C2_FailingTurnNeverStopsLoop ==
    /\ [](pc # "Crashed")
    /\ [][(Has("print", "error")' /\ ~Has("print", "error")) => pc' = "IterEnd"]_vars
    /\ [][(pc = "IterEnd" /\ pc' # "Exited" /\ ~ThreadEnded) => (pc' = "Listening" /\ Init')]_vars

\* a turn has failed with an exception and the loop is about to go on
C2_Witness == pc = "IterEnd" /\ Dispatched /\ Has("print", "error") /\ Kind("failed") # {}

\* C3: an effector call that fails during a turn is turned into a Response
\* inside the turn and never reaches the listener loop
C3_EffectorFailureBecomesResponse ==
    (Dispatched /\ Kind("failed") # {}) =>
        /\ ~Has("print", "error")
        /\ pc = "IterEnd" => Has("display", "response")

\* C4: process_command executes exactly one rule for every text: a rule whose
\* condition the text satisfies, none before it satisfied, and the
\* conversational fallback exactly when no rule's condition is satisfied
C4_ExactlyOneIntent ==
    Dispatched =>
        LET satisfied == Matching(Normalised) IN
        /\ Len(executed) = 1
        /\ executed[1] \in satisfied
        /\ executed[1] = "fallback" <=> satisfied = {"fallback"}
        /\ LET first == RuleIndex(executed[1]) IN \A r \in satisfied : first <= RuleIndex(r)

\* a text no rule matches has been routed to the fallback
C4_Witness ==
    /\ pc = "Responding"
    /\ executed = <<"fallback">>
    /\ Has("call", "gemini")
    /\ Matching(Normalised) = {"fallback"}

\* the category of each rule
Category(r) ==
    CASE r \in {"greeting", "smalltalk", "farewell"} -> "greetings"
      [] r = "wikipedia" -> "encyclopedia"
      [] r \in {"open_youtube", "open_google", "search"} -> "navigation"
      [] r = "play" -> "media"
      [] r \in {"time", "date"} -> "timedate"
      [] r = "joke" -> "entertainment"
      [] r = "weather" -> "weather"
      [] r \in {"volume_up", "volume_down", "mute", "unmute", "volume_set"} -> "volume"
      [] r \in {"brightness_up", "brightness_down"} -> "brightness"
      [] r = "screenshot" -> "screenshot"
      [] r \in {"shutdown", "restart", "sleep"} -> "power"
      [] r = "internet" -> "connectivity"
      [] r \in {"cpu", "ram"} -> "stats"
      [] r = "file_search" -> "files"
      [] OTHER -> "fallback"

\* the order of the categories as the claim gives it: the topic lookups
\* (encyclopedia, media) together, ahead of the navigation and search openers
ClaimedOrder ==
    << {"greetings"}, {"encyclopedia", "media"}, {"navigation"}, {"timedate"},
       {"entertainment"}, {"weather"}, {"volume"}, {"brightness"}, {"screenshot"},
       {"power"}, {"connectivity"}, {"stats"}, {"files"}, {"fallback"} >>

\* the order with the media playback after the navigation and search openers
AmendedOrder ==
    << {"greetings"}, {"encyclopedia"}, {"navigation"}, {"media"}, {"timedate"},
       {"entertainment"}, {"weather"}, {"volume"}, {"brightness"}, {"screenshot"},
       {"power"}, {"connectivity"}, {"stats"}, {"files"}, {"fallback"} >>

Rank(order, r) == CHOOSE i \in DOMAIN order : Category(r) \in order[i]

\* the executed rule belongs to the earliest category, in the given order,
\* among the categories with a rule the text matches
EarliestCategoryWins(order) ==
    (Dispatched /\ executed # <<>>) =>
        LET won == Rank(order, executed[1]) IN
        \A r \in Matching(Normalised) : won <= Rank(order, r)

\* C5 as claimed: first match wins over the categories in the order greetings,
\* topic lookups (encyclopedia, media), navigation/search openers, time/date, ...
C5_ClaimedOrderWins == EarliestCategoryWins(ClaimedOrder)

\* C5 as amended: first match wins over the categories in the order greetings,
\* encyclopedia lookup, navigation/search openers, media playback, time/date,
\* entertainment, weather, volume, brightness, screenshot, power, connectivity,
\* resource stats, file search, fallback
C5_AmendedOrderWins == EarliestCategoryWins(AmendedOrder)

\* 'search wikipedia for notes' matches the encyclopedia and the file search
\* rules and has been handled by the encyclopedia lookup
C5_Witness ==
    /\ pc = "Responding"
    /\ Normalised = "search wikipedia for notes"
    /\ {"wikipedia", "file_search"} \subseteq Matching(Normalised)
    /\ executed = <<"wikipedia">>

\* a text that satisfies these rules reaches the volume rules: no rule ahead
\* of them takes it
ReachesVolumeRules(satisfied) ==
    LET volume == RuleIndex("volume_up") IN \A r \in satisfied : RuleIndex(r) >= volume

\* C6 as claimed: of the texts that reach the volume rules, any that contains
\* 'unmute' is dispatched to the unmute action, and the mute action is taken
\* only when 'mute' occurs and 'unmute' does not
C6_UnmuteNeverMutes ==
    (Dispatched /\ executed # <<>> /\ ReachesVolumeRules(Matching(Normalised))) =>
        /\ Contains(Normalised, "unmute") => executed[1] = "unmute"
        /\ executed[1] = "mute" =>
              Contains(Normalised, "mute") /\ ~Contains(Normalised, "unmute")

\* C6 as amended: of the texts that reach the volume rules and match neither
\* the 'volume up' nor the 'volume down' rule, any that contains 'unmute' is
\* dispatched to the unmute action; the mute action is taken only when 'mute'
\* occurs and 'unmute' does not
C6_UnmuteNeverMutesPastUpDown ==
    (Dispatched /\ executed # <<>> /\ ReachesVolumeRules(Matching(Normalised))) =>
        /\ (/\ Contains(Normalised, "unmute")
            /\ ~RuleMatches("volume_up", Normalised)
            /\ ~RuleMatches("volume_down", Normalised)) => executed[1] = "unmute"
        /\ executed[1] = "mute" =>
              Contains(Normalised, "mute") /\ ~Contains(Normalised, "unmute")

\* a text holding 'unmute' (and so 'mute') has been dispatched to unmute
C6_Witness ==
    /\ pc = "Responding"
    /\ Contains(Normalised, "unmute")
    /\ executed = <<"unmute">>
    /\ response = "Volume unmute."

\* search_files has run in this iteration
Searched == Has("call", "search_files")

\* the files open_file was called on, in call order
Opened == [i \in 1..Cardinality(Kind("open")) |->
             events[CHOOSE k \in Kind("open") :
                      Cardinality({j \in Kind("open") : j <= k}) = i].arg]

\* get_user_selection_via_voice_or_input was called, with the given argument
AskedSelection(n) ==
    \E i \in EventsOf("call", "get_user_selection_via_voice_or_input") :
        events[i].arg = ToString(n)

\* C7: the number of candidates search_files returns decides the path of a
\* file-search turn: none gives the 'No files found' Response and opens
\* nothing; one is opened without prompt or selection; more than one always
\* calls get_user_selection_via_voice_or_input with max_index their number
C7_CandidateCountDecidesPath ==
    Searched =>
        /\ Len(matches) = 0 =>
              /\ response = "No files found matching '" \o SearchTerms(Normalised) \o "'."
              /\ Opened = <<>>
              /\ ~Has("display", "prompt") /\ selBy = "none"
              /\ ~Has("call", "get_user_selection_via_voice_or_input")
        /\ Len(matches) = 1 =>
              /\ Opened = <<matches[1]>>
              /\ ~Has("display", "prompt") /\ selBy = "none"
              /\ ~Has("call", "get_user_selection_via_voice_or_input")
              /\ Kind("voice") = {} /\ Kind("input") = {}
        /\ Len(matches) > 1 =>
              /\ AskedSelection(Len(matches))
              /\ max_index = Len(matches)
              /\ Has("display", "prompt")

\* a search with three candidates has asked for a selection among three
C7_Witness ==
    /\ pc = "SelVoice"
    /\ Len(matches) = 3
    /\ AskedSelection(3)
    /\ max_index = 3

\* the disambiguation of this iteration has returned
SelectionMade == selBy # "none"

\* C8: a Selection of 0, spoken or typed, gives the cancellation Response and
\* open_file is not called in that turn
C8_ZeroCancels ==
    (SelectionMade /\ sel = 0) =>
        /\ response = "Cancelled. No file opened."
        /\ Opened = <<>>

\* a spoken 'zero' has cancelled a choice among several candidates
C8_Witness ==
    /\ pc = "IterEnd"
    /\ Len(matches) > 1
    /\ sel = 0 /\ selBy = "voice"
    /\ \E i \in EventsOf("voice", "heard") : events[i].arg = "zero"
    /\ Has("display", "response")

\* the text the voice capture of the disambiguation gave resolves to a value
\* in [0, n]
VoiceResolves(n) ==
    \E i \in EventsOf("voice", "heard") :
        parse_spoken_number(events[i].arg) \in 0..n

\* the line typed at the prompt resolves to a value in [0, n]
TypedResolves(n) ==
    \E i \in EventsOf("input", "line") :
        ParseInt(events[i].arg).ok /\ ParseInt(events[i].arg).val \in 0..n

\* C9: a choice that resolves to no value in [0, maxIndex] on either channel
\* gives the selection -1; the selection -1 gives the 'Invalid choice'
\* Response and opens no file; no selection lies outside [0, maxIndex]
C9_UnresolvedChoiceIsInvalid ==
    SelectionMade =>
        /\ sel \in (0..Len(matches)) \cup {-1}
        /\ (~VoiceResolves(Len(matches)) /\ ~TypedResolves(Len(matches))) => sel = -1
        /\ sel = -1 =>
              /\ response = "Invalid choice. No file opened."
              /\ Opened = <<>>

\* a typed 5 among three candidates, after a voice reply that names none of
\* them, has ended in the 'Invalid choice' Response
C9_Witness ==
    /\ pc = "IterEnd"
    /\ Len(matches) = 3
    /\ \E i \in EventsOf("voice", "heard") : events[i].arg = "seven"
    /\ \E i \in EventsOf("input", "line") : events[i].arg = "5"
    /\ sel = -1
    /\ response = "Invalid choice. No file opened."

\* C10: when the voice capture of the disambiguation fails or times out the
\* turn goes on to the typed input, and a typed integer k with 1 <= k <= N
\* makes k the Selection and opens exactly the k-th candidate as displayed
C10_TypedFallbackOpensKth ==
    /\ (Has("voice", "failed") /\ ~SelectionMade) =>
            pc = "SelTyped" /\ ~Has("print", "error")
    /\ \A k \in 1..Len(matches) :
          (/\ Has("voice", "failed")
           /\ \E i \in EventsOf("input", "line") :
                 ParseInt(events[i].arg).ok /\ ParseInt(events[i].arg).val = k)
          => /\ sel = k /\ selBy = "typed"
             /\ Opened = <<matches[k]>>
             /\ response = "Opened: " \o matches[k]

\* three candidates, the voice capture failed, '2' was typed, the second
\* candidate was opened
C10_Witness ==
    /\ pc = "IterEnd"
    /\ Len(matches) = 3
    /\ Has("voice", "failed")
    /\ \E i \in EventsOf("input", "line") : events[i].arg = "2"
    /\ sel = 2
    /\ Opened = <<matches[2]>>
    /\ Has("display", "response")

\* the one line the handler of __main__ prints
Farewell == <<Ev("print", "farewell", "Exiting LEO. Bye!")>>

Voiced == Kind("speak") \cup Kind("speak_fail")

\* C12: speak_and_print renders the text of a Response before it attempts the
\* voice playback, and a playback that fails neither removes the rendered text
\* nor raises out of the turn: the turn completes without an error logged
C12_TextFirstVoiceFailureContained ==
    /\ \A i \in Voiced :
          i > 1 /\ events[i - 1].ev = "display" /\ events[i - 1].name = events[i].name
    /\ (Dispatched /\ Kind("speak_fail") # {}) =>
          /\ \A i \in Kind("speak_fail") : Has("display", events[i].name)
          /\ ~Has("print", "error")
          /\ pc = "IterEnd" => Has("display", "response")

\* the "Yes?" prompt has been shown and spoken in this iteration
Acknowledged == Has("display", "ack") /\ Has("speak", "ack")

\* C13: a wake utterance without a query gets the acknowledgement prompt and
\* one follow-up capture; a capture that yields no text, by an empty
\* transcription or by the timeout, dispatches no turn and surfaces neither a
\* Response nor an error; a capture that yields text has it dispatched
C13_EmptyFollowUpIsSilent ==
    /\ pc = "AwaitingQuery" => (Acknowledged /\ query = "" /\ ~Dispatched)
    /\ (Acknowledged /\ pc = "IterEnd" /\ ~Dispatched) =>
          /\ query = ""
          /\ ~Has("print", "error")
          /\ ~Has("display", "response")
    /\ (Acknowledged /\ Dispatched) =>
          /\ query # ""
          /\ \A i \in EventsOf("call", "handle_query") : events[i].arg = query

\* the positions of the capture where the wake token starts
WakeAt == {i \in 1..Len(said) : StartsAt(said, i, WAKE_WORD)}

\* C14: for a capture that contains the wake token the candidate query is
\* exactly the trimmed text after the token's first occurrence: what precedes
\* it is discarded and a later occurrence stays inside the query; that text
\* is the query of the iteration unless it is empty and a follow-up is asked
C14_QueryFollowsFirstWakeToken ==
    (pc # "Listening" /\ WakeAt # {}) =>
        LET first == CHOOSE i \in WakeAt : \A j \in WakeAt : i <= j
            rest == SubSeq(said, first + Len(WAKE_WORD), Len(said))
            candidate == Strip(rest)
        IN  IF candidate # ""
            THEN /\ query = candidate
                 /\ ~Has("display", "ack")
                 /\ \A i \in EventsOf("call", "handle_query") : events[i].arg = candidate
                 /\ \A j \in WakeAt : j > first => Contains(query, WAKE_WORD)
            ELSE Has("display", "ack")

\* 'hey leo tell leo a joke' has given the query 'tell leo a joke'
C14_Witness ==
    /\ pc = "Responding"
    /\ said = "hey leo tell leo a joke"
    /\ Cardinality(WakeAt) = 2
    /\ query = "tell leo a joke"
    /\ executed = <<"joke">>

\* recognizer.listen of the loop raised: there is no transcription
CaptureRaised ==
    \E i \in EventsOf("print", "error") : events[i].arg = "Error listening: OSError"

\* C15: a capture of the Listening state whose transcription is empty or
\* holds no wake token starts no turn: handle_query is not called, nothing is
\* displayed, spoken or printed, no error included, and the iteration ends
\* with the loop about to listen again
C15_MissedCaptureStartsNoTurn ==
    (/\ pc \notin {"Listening", "Exited"}
     /\ ~CaptureRaised
     /\ (said = "" \/ ~Contains(said, WAKE_WORD))) =>
        /\ pc = "IterEnd"
        /\ events = <<>>
        /\ query = "" /\ executed = <<>> /\ response = ""
        /\ ENABLED LoopBack

\* 'what time is it', said without the wake word, has been passed over
C15_Witness ==
    /\ pc = "IterEnd"
    /\ said = "what time is it"
    /\ ~Dispatched
    /\ events = <<>>

\* the text the parser works on: trimmed, lower case
Spoken == Lower(Strip(said))

\* the maximal runs [a, b] of characters of Spoken that satisfy the test
Runs(IsIn(_)) ==
    {r \in (1..Len(Spoken)) \X (1..Len(Spoken)) :
        /\ r[1] <= r[2]
        /\ \A k \in r[1]..r[2] : IsIn(CharAt(Spoken, k))
        /\ (r[1] = 1 \/ ~IsIn(CharAt(Spoken, r[1] - 1)))
        /\ (r[2] = Len(Spoken) \/ ~IsIn(CharAt(Spoken, r[2] + 1)))}

\* the run that starts first
FirstRun(runs) == CHOOSE r \in runs : \A o \in runs : r[1] <= o[1]

RECURSIVE Pow10(_)
Pow10(n) == IF n = 0 THEN 1 ELSE 10 * Pow10(n - 1)

RECURSIVE DecimalValue(_, _)
\* the decimal value of the digits of Spoken at a..b
DecimalValue(a, b) ==
    IF a > b THEN 0
    ELSE DigitOf[CharAt(Spoken, a)] * Pow10(b - a) + DecimalValue(a + 1, b)

\* the number words among the tokens of Spoken
NumberWords ==
    {r \in Runs(IsWordChar) : \E w \in DOMAIN WORD_NUMS : WORD_NUMS[w][1] = SubSeq(Spoken, r[1], r[2])}

\* the reference parser: blank gives -1; else the value of the first run of
\* digits; else the value of the first token the word table holds; else -1
ReferenceNumber ==
    IF Spoken = "" THEN -1
    ELSE IF Runs(IsDigit) # {}
    THEN DecimalValue(FirstRun(Runs(IsDigit))[1], FirstRun(Runs(IsDigit))[2])
    ELSE IF NumberWords # {}
    THEN LET r == FirstRun(NumberWords)
             w == CHOOSE k \in DOMAIN WORD_NUMS : WORD_NUMS[k][1] = SubSeq(Spoken, r[1], r[2])
         IN  WORD_NUMS[w][2]
    ELSE -1

\* C16: parse_spoken_number agrees with the reference parser on every input:
\* -1 for a blank text, else the value of the first digit run whatever number
\* words stand beside it, else the value of the first token of the word
\* table, else -1; the result is -1 or at least 0 and is not held against
\* any max_index
C16_ParserAgreesWithReference ==
    pc = "Parsed" =>
        /\ sel = ReferenceNumber
        /\ sel = -1 \/ sel >= 0
        /\ Strip(said) = "" => sel = -1
        /\ said = "two 3" => sel = 3
        /\ said = "Second or third" => sel = 2
        /\ said = "40" => sel = 40

\* 'two 3' has been parsed to 3
C16_Witness ==
    /\ pc = "Parsed"
    /\ said = "two 3"
    /\ Runs(IsDigit) # {} /\ NumberWords # {}
    /\ sel = 3

\* the Response of a file search without a usable search term
MissingTerm == "Please specify a file name, keyword, or part of it to search."

\* C17: in a file-search turn whose text, with every trigger phrase removed
\* and trimmed, is empty or shorter than 2 characters, the Response is the
\* missing-parameter message and search_files, open_file and the
\* disambiguation are not invoked; a longer term is searched for
C17_ShortTermIsMissingParameter ==
    (Dispatched /\ executed = <<"file_search">>) =>
        LET term == SearchTerms(Normalised) IN
        /\ Len(term) < 2 =>
              /\ pc \in {"Responding", "IterEnd"}
              /\ response = MissingTerm
              /\ ~Searched
              /\ Opened = <<>>
              /\ ~Has("call", "get_user_selection_via_voice_or_input")
              /\ ~Has("display", "prompt") /\ Kind("voice") = {} /\ Kind("input") = {}
        /\ Len(term) >= 2 => (Searched /\ response # MissingTerm)

\* 'find x' leaves the one-character term 'x' and has been answered with the
\* missing-parameter message
C17_Witness ==
    /\ pc = "IterEnd"
    /\ Normalised = "find x"
    /\ SearchTerms(Normalised) = "x"
    /\ executed = <<"file_search">>
    /\ \E i \in EventsOf("display", "response") : events[i].arg = MissingTerm

\* the fixed failure string of each guarded rule, by the effector it calls
FailureString ==
    ("pywhatkit.playonyt" :> "Couldn't play that right now.") @@
    ("wikipedia.summary" :> "Couldn't find that on Wikipedia.") @@
    ("pyjokes.get_joke" :> "I couldn't fetch a joke right now.")

\* the rule each of these effectors stands behind
GuardedRule ==
    ("pywhatkit.playonyt" :> "play") @@ ("wikipedia.summary" :> "wikipedia") @@
    ("pyjokes.get_joke" :> "joke")

C19_MicrophoneFreeDuringDispatch ==
    /\ pc = "SelVoice" => ~micHeld
    /\ pc \in {"Dispatching", "SelTyped", "Responding"} => ~micHeld

\* the voice reply of the disambiguation gave a value in [0, max_index]
VoiceInRange ==
    \E i \in EventsOf("voice", "heard") : parse_spoken_number(events[i].arg) \in 0..max_index

\* C20: a disambiguation emits exactly one prompt, attempts at most one voice
\* capture, issues the typed prompt if and only if the voice attempt failed,
\* timed out or gave a value outside [0, max_index], reads at most one typed
\* line, after the voice attempt, and returns -1 or a value in [0, max_index]
C20_VoiceThenTypedOnceEach ==
    Has("call", "get_user_selection_via_voice_or_input") =>
        /\ Cardinality(EventsOf("display", "prompt")) = 1
        /\ Cardinality(Kind("voice")) <= 1
        /\ Cardinality(EventsOf("print", "typed_prompt")) <= 1
        /\ Cardinality(Kind("input")) <= 1
        /\ \A t \in EventsOf("print", "typed_prompt") :
              /\ \E v \in Kind("voice") : v < t
              /\ \A k \in Kind("input") : t < k
        /\ Kind("input") # {} => Has("print", "typed_prompt")
        /\ Has("print", "typed_prompt") => (Kind("voice") # {} /\ ~VoiceInRange)
        /\ SelectionMade =>
              /\ Cardinality(Kind("voice")) = 1
              /\ Has("print", "typed_prompt") <=> ~VoiceInRange
              /\ Has("print", "typed_prompt") <=> Cardinality(Kind("input")) = 1
              /\ selBy = "typed" <=> Has("print", "typed_prompt")
              /\ sel = -1 \/ sel \in 0..max_index

\* three candidates, the voice reply 'seven' was out of range, the typed
\* prompt was issued once and the typed 2 was returned
C20_Witness ==
    /\ pc = "IterEnd"
    /\ max_index = 3
    /\ \E i \in EventsOf("voice", "heard") : events[i].arg = "seven"
    /\ Cardinality(EventsOf("print", "typed_prompt")) = 1
    /\ \E i \in EventsOf("input", "line") : events[i].arg = "2"
    /\ sel = 2 /\ selBy = "typed"

\* the power rules, the target each starts and the Response each returns
PowerTarget ==
    ("shutdown" :> "system_shutdown") @@ ("restart" :> "system_restart") @@
    ("sleep" :> "system_sleep")

PowerResponse ==
    ("shutdown" :> "Shutting down.") @@ ("restart" :> "Restarting.") @@
    ("sleep" :> "Sleeping now.")

\* the power rule of this iteration's turn, if it is one
PowerTurn == Dispatched /\ Len(executed) = 1 /\ executed[1] \in DOMAIN PowerTarget

\* C21: a shutdown, restart or sleep command starts its OS action on a
\* background thread and process_command returns the Response without
\* waiting for it; the Response is emitted and the loop goes back to
\* listening whether the thread is still running, has ended or has failed;
\* the loop starts the action once and no step of it waits for, or is
\* changed by, the thread's end
C21_PowerActionFireAndForget ==
    /\ [](PowerTurn =>
            /\ Cardinality(Kind("thread")) = 1
            /\ \A i \in Kind("thread") : events[i].name = PowerTarget[executed[1]]
            /\ Kind("call") = EventsOf("call", "handle_query") /\ Kind("failed") = {}
            /\ response = PowerResponse[executed[1]]
            /\ pc = "IterEnd" =>
                  /\ Has("display", "response")
                  /\ Has("print", "error") => Has("speak_fail", "response")
                  /\ ENABLED LoopBack)
    /\ [][(pc = "Dispatching" /\ PowerTurn') => (pc' = "Responding" /\ RunningThreads' # {})]_vars
    /\ [][(PowerTurn /\ pc = "Responding" /\ pc' # "Exited" /\ ~ThreadEnded) =>
            (pc' = "IterEnd" /\ Has("display", "response")')]_vars
    /\ [][ThreadEnded => UNCHANGED <<pc, micHeld, said, query, executed, matches, sel, selBy, max_index, response>>]_vars

\* 'shutdown' has been answered, shown and spoken, and the loop is about to
\* listen again while the shutdown thread is still running
C21_Witness ==
    /\ pc = "IterEnd"
    /\ Normalised = "shutdown"
    /\ executed = <<"shutdown">>
    /\ RunningThreads # {}
    /\ Has("display", "response") /\ Has("speak", "response")
    /\ ENABLED LoopBack

\* C22: in a file-search turn the Response says a file was opened only if
\* open_file succeeded on the chosen candidate: whenever open_file fails the
\* Response reports the failure, on the single-candidate path and on the
\* path through the disambiguation alike
C22_OpenFailureIsReported ==
    \A i \in EventsOf("open", "failed") :
        /\ Contains(response, "Failed to open " \o events[i].arg)
        /\ ~StartsWith(response, "Opened: ")
        /\ ~Contains(response, "Opening: ")

====
